---- MODULE Spec2Model ----
(***************************************************************************)
(* A model of src/flask/app.py: the Flask application object, its          *)
(* constructor, run, route (and the decorator closure it returns) and      *)
(* add_url_rule.                                                           *)
(*                                                                         *)
(* Python values are modelled as strings: None is "None", True and False   *)
(* are "True" and "False", a callable is the token naming the object (two  *)
(* tokens are two objects).  A keyword dictionary (the options) is a       *)
(* function whose domain is the set of keys present.                       *)
(***************************************************************************)
EXTENDS Integers, Sequences, FiniteSets, TLC

VARIABLES
    pc,          \* "new" before Flask(...) has run, "ready" after
    args,        \* the arguments of the Flask(...) call, Omitted where not given
    app,         \* the instance dictionary of the application object
    decorators,  \* the closures returned by route: the cells rule and options
    routed,      \* the arguments each route call was given (history)
    calls,       \* the calls of add_url_rule made so far (history)
    applied,     \* the number of decorator applications so far (history)
    last         \* the outcome of the latest operation

vars == <<pc, args, app, decorators, routed, calls, applied, last>>

----------------------------------------------------------------------------
(* Bounds of the model.                                                    *)

MaxCalls == 2        \* add_url_rule calls explored in one behaviour
MaxDecorators == 1   \* route calls explored in one behaviour

----------------------------------------------------------------------------
(* Python values.                                                          *)

None == "None"
PyTrue == "True"
PyFalse == "False"
Omitted == "<omitted>"     \* an argument the call does not pass

EmptyDict == [k \in {} |-> None]

\* dict.pop(key, default): the value popped and the dictionary left behind.
\* A get in place of the pop (the key is left in the dictionary).
PopKeepsKey(d, key, default) ==
    [value |-> IF key \in DOMAIN d THEN d[key] ELSE default,
     rest  |-> d]

Pop(d, key, default) ==
    [value |-> IF key \in DOMAIN d THEN d[key] ELSE default,
     rest  |-> [k \in DOMAIN d \ {key} |-> d[k]]]

----------------------------------------------------------------------------
(* Flask.__init__                                                          *)

Params ==
    {"import_name", "static_url_path", "static_folder", "static_host",
     "host_matching", "subdomain_matching", "template_folder",
     "instance_path", "instance_relative_config", "root_path"}

\* A signature whose template_folder default is the static folder's.
DefaultSwapped(p) ==
    CASE p = "static_folder" -> "static"
      [] p = "template_folder" -> "static"
      [] p \in {"host_matching", "subdomain_matching",
                "instance_relative_config"} -> PyFalse
      [] OTHER -> None

\* The default of each parameter of __init__ (import_name has none and is
\* always passed).
Default(p) ==
    CASE p = "static_folder" -> "static"
      [] p = "template_folder" -> "templates"
      [] p \in {"host_matching", "subdomain_matching",
                "instance_relative_config"} -> PyFalse
      [] OTHER -> None

\* Argument binding of the Flask(...) call: a parameter the call omits
\* takes its default.
BindInit(a) ==
    [p \in Params |-> IF a[p] = Omitted THEN Default(p) ELSE a[p]]

\* A constructor that stores static_url_path in static_host as well.
Flask_init_CrossAssigned(b) ==
    [import_name              |-> b.import_name,
     static_url_path          |-> b.static_url_path,
     static_folder            |-> b.static_folder,
     static_host              |-> b.static_url_path,
     host_matching            |-> b.host_matching,
     subdomain_matching       |-> b.subdomain_matching,
     template_folder          |-> b.template_folder,
     instance_path            |-> b.instance_path,
     instance_relative_config |-> b.instance_relative_config,
     root_path                |-> b.root_path]

\* The body of __init__: ten assignments, self.<name> = <name>.  The result
\* is the instance dictionary.
Flask_init(b) ==
    [import_name              |-> b.import_name,
     static_url_path          |-> b.static_url_path,
     static_folder            |-> b.static_folder,
     static_host              |-> b.static_host,
     host_matching            |-> b.host_matching,
     subdomain_matching       |-> b.subdomain_matching,
     template_folder          |-> b.template_folder,
     instance_path            |-> b.instance_path,
     instance_relative_config |-> b.instance_relative_config,
     root_path                |-> b.root_path]

\* Values a caller passes.
ImportNames == {"myapp", "pkg"}
StrArgs == {Omitted, None, "x"}
BoolArgs == {Omitted, PyTrue, PyFalse}

AllCtorArgs ==
    [import_name              : ImportNames,
     static_url_path          : StrArgs,
     static_folder            : StrArgs,
     static_host              : StrArgs,
     host_matching            : BoolArgs,
     subdomain_matching       : BoolArgs,
     template_folder          : StrArgs,
     instance_path            : StrArgs,
     instance_relative_config : BoolArgs,
     root_path                : StrArgs]

OnlyImportName(n) == [p \in Params |-> IF p = "import_name" THEN n ELSE Omitted]

\* The constructor calls the routing specification starts from.
SampleCtorArgs ==
    {OnlyImportName("myapp"),
     [import_name              |-> "pkg",
      static_url_path          |-> "x",
      static_folder            |-> None,
      static_host              |-> "x",
      host_matching            |-> PyTrue,
      subdomain_matching       |-> PyTrue,
      template_folder          |-> "x",
      instance_path            |-> "x",
      instance_relative_config |-> PyTrue,
      root_path                |-> "x"]}

NoOutcome ==
    [op |-> "none", called |-> "none", raised |-> FALSE, returned |-> None,
     dec |-> 0, f |-> None, pos |-> <<>>, kw |-> EmptyDict]

InitWith(ctorArgs) ==
    /\ pc = "new"
    /\ args \in ctorArgs
    /\ app = EmptyDict
    /\ decorators = <<>>
    /\ routed = <<>>
    /\ calls = <<>>
    /\ applied = 0
    /\ last = NoOutcome

\* app = Flask(import_name, ...)
Construct ==
    /\ pc = "new"
    /\ pc' = "ready"
    /\ app' = Flask_init(BindInit(args))
    /\ last' = [NoOutcome EXCEPT !.op = "__init__", !.called = "__init__"]
    /\ UNCHANGED <<args, decorators, routed, calls, applied>>

InitCtor == InitWith(AllCtorArgs)
NextCtor == Construct
SpecCtor == InitCtor /\ [][NextCtor]_vars

----------------------------------------------------------------------------
(* Flask.run, Flask.route, the decorator closure, Flask.add_url_rule       *)

Callables == {"<function index>", "<function about>"}

\* f.__name__
FuncName(f) ==
    CASE f = "<function index>" -> "index"
      [] f = "<function about>" -> "about"
      [] OTHER -> None

\* The keyword options a caller gives to route.
RouteOptions ==
    {EmptyDict,
     [methods |-> "GET"],
     [endpoint |-> "index", methods |-> "GET"],
     [view_func |-> "<function about>"]}

\* The receiver of a method call: app.m(x) calls m with app as first argument.
Self == "<app>"

\* The signatures: the parameters in order, how many of the leading ones have
\* no default, whether **options takes the other keywords, and the defaults.
RunSig ==
    [params   |-> <<"self", "host", "port", "debug", "load_dotenv">>,
     required |-> 1,
     varkw    |-> TRUE,
     defaults |-> [host |-> None, port |-> None, debug |-> None,
                   load_dotenv |-> PyTrue]]
RouteSig ==
    [params   |-> <<"self", "rule">>,
     required |-> 2,
     varkw    |-> TRUE,
     defaults |-> EmptyDict]
AddUrlRuleSig ==
    [params   |-> <<"self", "rule", "endpoint", "view_func">>,
     required |-> 2,
     varkw    |-> TRUE,
     defaults |-> [endpoint |-> None, view_func |-> None]]
DecoratorSig ==
    [params   |-> <<"f">>,
     required |-> 1,
     varkw    |-> FALSE,
     defaults |-> EmptyDict]

\* Python's binding of the arguments of a call to a signature.  The call
\* raises TypeError (ok is FALSE) when it has more positional arguments than
\* parameters, when a keyword names a parameter already filled by position,
\* when a parameter without default is given neither way, or when a keyword
\* names no parameter and the signature has no **options.  Otherwise a
\* parameter takes its positional argument, else its keyword, else its
\* default, and the keywords that name no parameter are the options.
BindCall(sig, pos, kw) ==
    LET n      == Len(sig.params)
        names  == {sig.params[i] : i \in 1..n}
        filled == {sig.params[i] : i \in {j \in 1..n : j <= Len(pos)}}
        index(q) == CHOOSE i \in 1..n : sig.params[i] = q
        value(i) == IF i <= Len(pos) THEN pos[i]
                    ELSE IF sig.params[i] \in DOMAIN kw THEN kw[sig.params[i]]
                    ELSE IF sig.params[i] \in DOMAIN sig.defaults
                         THEN sig.defaults[sig.params[i]]
                         ELSE None
    IN  [ok      |-> /\ Len(pos) <= n
                     /\ filled \cap DOMAIN kw = {}
                     /\ \A i \in 1..sig.required :
                           i <= Len(pos) \/ sig.params[i] \in DOMAIN kw
                     /\ sig.varkw \/ DOMAIN kw \subseteq names,
         arg     |-> [q \in names |-> value(index(q))],
         options |-> [k \in DOMAIN kw \ names |-> kw[k]]]

\* The calls of run a caller makes.
RunCalls ==
    {[pos |-> <<>>, kw |-> EmptyDict],
     [pos |-> <<"0.0.0.0">>, kw |-> [threaded |-> PyTrue]],
     [pos |-> <<"0.0.0.0">>, kw |-> [host |-> "localhost"]],
     [pos |-> <<"0.0.0.0", "8080", PyTrue, PyFalse, "x">>, kw |-> EmptyDict]}

\* The calls of route a caller makes; the rule "" is empty and has no
\* leading slash.
RouteCalls ==
    [pos : {<<"/">>}, kw : RouteOptions]
    \cup {[pos |-> <<"">>, kw |-> [endpoint |-> "index", methods |-> "GET"]],
          [pos |-> <<>>, kw |-> [rule |-> "/", methods |-> "GET"]],
          [pos |-> <<>>, kw |-> [methods |-> "GET"]],
          [pos |-> <<"/">>, kw |-> [rule |-> ""]],
          [pos |-> <<"/", "index">>, kw |-> EmptyDict]}

\* The calls d(...) a caller makes of a decorator that route returned.
DecoratorCalls ==
    [pos : {<<f>> : f \in Callables}, kw : {EmptyDict}]
    \cup {[pos |-> <<>>, kw |-> [f |-> "<function about>"]],
          [pos |-> <<>>, kw |-> EmptyDict],
          [pos |-> <<"<function index>", "<function about>">>, kw |-> EmptyDict],
          [pos |-> <<"<function index>">>, kw |-> [methods |-> "GET"]]}

\* The calls of add_url_rule a caller makes directly: the positional
\* arguments and the keyword arguments of the call.
DirectCalls ==
    {[pos |-> <<"/">>, kw |-> [view_func |-> "<function about>"]],
     [pos |-> <<"", "index">>, kw |-> EmptyDict],
     [pos |-> <<"/", "index", "<function index>">>, kw |-> EmptyDict],
     [pos |-> <<>>, kw |-> EmptyDict],
     [pos |-> <<"", "index", "<function about>">>,
      kw  |-> [view_func |-> "<function about>"]],
     [pos |-> <<"/">>, kw |-> [self |-> "x"]],
     [pos |-> <<"/", "index", "<function index>", "GET">>, kw |-> EmptyDict]}

\* The positional parameters of add_url_rule after self.
AddUrlRuleParams == <<"rule", "endpoint", "view_func">>

\* The binding of a call app.add_url_rule(*pos, **kw).
Bind(pos, kw) ==
    LET b == BindCall(AddUrlRuleSig, <<Self>> \o pos, kw)
    IN  [ok        |-> b.ok,
         rule      |-> b.arg["rule"],
         endpoint  |-> b.arg["endpoint"],
         view_func |-> b.arg["view_func"],
         options   |-> b.options]

\* An add_url_rule that rejects a rule without a leading slash.
add_url_rule_ChecksRule(self, rule, endpoint, view_func, options) ==
    [self |-> self, raised |-> (rule = "")]

\* An add_url_rule that records the view function under its endpoint.
add_url_rule_Stores(self, rule, endpoint, view_func, options) ==
    [self   |-> [k \in DOMAIN self \cup {"view_functions"} |->
                    IF k = "view_functions" THEN view_func ELSE self[k]],
     raised |-> FALSE]

\* The body of add_url_rule: pass.
add_url_rule(self, rule, endpoint, view_func, options) ==
    [self |-> self, raised |-> FALSE]

\* The body of run: pass.
run(self, host, port, debug, load_dotenv, options) ==
    [self |-> self, raised |-> FALSE]

\* One call self.add_url_rule(*pos, **kw): the binding, then the body.
Call(self, c) ==
    LET b == Bind(c.pos, c.kw)
    IN  IF b.ok
        THEN LET r == add_url_rule(self, b.rule, b.endpoint, b.view_func, b.options)
             IN  [self |-> r.self, raised |-> r.raised, entered |-> TRUE]
        ELSE [self |-> self, raised |-> TRUE, entered |-> FALSE]

\* The calls of add_url_rule a handler makes, in order, up to the first
\* that raises; entries are what the history keeps of each.
RECURSIVE Perform(_, _, _, _)
Perform(self, made, via, dec) ==
    IF made = <<>>
    THEN [self |-> self, raised |-> FALSE, entries |-> <<>>]
    ELSE LET c == Head(made)
             r == Call(self, c)
             e == [via |-> via, dec |-> dec, pos |-> c.pos, kw |-> c.kw,
                   entered |-> r.entered]
         IN  IF r.raised
             THEN [self |-> r.self, raised |-> TRUE, entries |-> <<e>>]
             ELSE LET rest == Perform(r.self, Tail(made), via, dec)
                  IN  [self |-> rest.self, raised |-> rest.raised,
                       entries |-> <<e>> \o rest.entries]

\* A route that registers the rule at once, before any view is given.
route_Eager(rule, options) ==
    [closure |-> [rule |-> rule, options |-> options],
     made    |-> << [pos |-> <<rule>>, kw |-> EmptyDict] >>]

\* route(rule, **options): builds the closure over rule and options and
\* returns it; it calls nothing.
route(rule, options) ==
    [closure |-> [rule |-> rule, options |-> options],
     made    |-> <<>>]

\* A decorator that returns what add_url_rule returned.
decorator_ReturnsNone(closure, f) ==
    LET p == Pop(closure.options, "endpoint", None)
    IN  [closure  |-> [closure EXCEPT !.options = p.rest],
         made     |-> << [pos |-> <<closure.rule, p.value, f>>, kw |-> p.rest] >>,
         returned |-> None]

\* decorator(f): pops endpoint from the options cell shared by every
\* application of this closure, calls add_url_rule(rule, endpoint, f,
\* **options) and returns f.
decorator(closure, f) ==
    LET p == Pop(closure.options, "endpoint", None)
    IN  [closure  |-> [closure EXCEPT !.options = p.rest],
         made     |-> << [pos |-> <<closure.rule, p.value, f>>, kw |-> p.rest] >>,
         returned |-> f]

\* What the caller sees of a call c of the function named called: entered
\* says whether the arguments bound and the body ran.
Outcome(called, entered, raised, returned, dec, f, c) ==
    [op |-> IF entered THEN called ELSE "unbound", called |-> called,
     raised |-> raised, returned |-> returned, dec |-> dec, f |-> f,
     pos |-> c.pos, kw |-> c.kw]

Unbound(called, dec, c) == Outcome(called, FALSE, TRUE, None, dec, None, c)

\* app.run(*pos, **kw)
Run ==
    /\ pc = "ready"
    /\ \E c \in RunCalls :
          LET b == BindCall(RunSig, <<Self>> \o c.pos, c.kw)
              r == run(app, b.arg["host"], b.arg["port"], b.arg["debug"],
                       b.arg["load_dotenv"], b.options)
          IN  IF b.ok
              THEN /\ app' = r.self
                   /\ last' = Outcome("run", TRUE, r.raised, None, 0, None, c)
              ELSE /\ app' = app
                   /\ last' = Unbound("run", 0, c)
    /\ UNCHANGED <<pc, args, decorators, routed, calls, applied>>

\* d = app.route(*pos, **kw)
Route ==
    /\ pc = "ready"
    /\ Len(decorators) < MaxDecorators
    /\ \E c \in RouteCalls :
          LET b == BindCall(RouteSig, <<Self>> \o c.pos, c.kw)
              r == route(b.arg["rule"], b.options)
              n == Len(decorators) + 1
              p == Perform(app, r.made, "route", n)
          IN  IF b.ok
              THEN /\ decorators' = Append(decorators, r.closure)
                   /\ routed' = Append(routed, [rule |-> b.arg["rule"],
                                                options |-> b.options])
                   /\ app' = p.self
                   /\ calls' = calls \o p.entries
                   /\ last' = Outcome("route", TRUE, p.raised, "<decorator>",
                                      n, None, c)
              ELSE /\ last' = Unbound("route", 0, c)
                   /\ UNCHANGED <<decorators, routed, app, calls>>
    /\ UNCHANGED <<pc, args, applied>>

\* d(*pos, **kw), for a decorator d that route returned earlier
Decorate ==
    /\ pc = "ready"
    /\ Len(calls) < MaxCalls
    /\ \E i \in 1..Len(decorators), c \in DecoratorCalls :
          LET b == BindCall(DecoratorSig, c.pos, c.kw)
              f == b.arg["f"]
              d == decorator(decorators[i], f)
              p == Perform(app, d.made, "decorator", i)
          IN  IF b.ok
              THEN /\ decorators' = [decorators EXCEPT ![i] = d.closure]
                   /\ app' = p.self
                   /\ calls' = calls \o p.entries
                   /\ applied' = applied + 1
                   /\ last' = Outcome("decorator", TRUE, p.raised,
                                      IF p.raised THEN None ELSE d.returned,
                                      i, f, c)
              ELSE /\ last' = Unbound("decorator", i, c)
                   /\ UNCHANGED <<decorators, app, calls, applied>>
    /\ UNCHANGED <<pc, args, routed>>

\* app.add_url_rule(*pos, **kw), called directly: the call raises TypeError
\* when Python cannot bind its arguments, and runs the body otherwise
AddUrlRule ==
    /\ pc = "ready"
    /\ Len(calls) < MaxCalls
    /\ \E c \in DirectCalls :
          LET p == Perform(app, <<c>>, "direct", 0)
          IN  /\ app' = p.self
              /\ calls' = calls \o p.entries
              /\ last' = Outcome("add_url_rule", p.entries[1].entered,
                                 p.raised, None, 0, None, c)
    /\ UNCHANGED <<pc, args, decorators, routed, applied>>

Init == InitWith(SampleCtorArgs)
Next == Construct \/ Run \/ Route \/ Decorate \/ AddUrlRule
Spec == Init /\ [][Next]_vars

----------------------------------------------------------------------------
(* Properties                                                              *)

Constructed == pc = "ready"
AllPassed == \A p \in Params : args[p] # Omitted
OnlyImportNamePassed == \A p \in Params \ {"import_name"} : args[p] = Omitted

\* The options the i-th route call was given, its endpoint option (None
\* when there is none), and those options without the endpoint key.
Given(i) == routed[i].options
GivenEndpoint(i) ==
    IF "endpoint" \in DOMAIN Given(i) THEN Given(i)["endpoint"] ELSE None
GivenWithoutEndpoint(i) ==
    [k \in DOMAIN Given(i) \ {"endpoint"} |-> Given(i)[k]]

\* The options of the i-th route call name view_func, a parameter that the
\* decorator's call of add_url_rule fills by position.
NamesViewFunc(i) == "view_func" \in DOMAIN Given(i)

ThroughRoute(i) == calls[i].via \in {"route", "decorator"}
ByDecorator(i) == calls[i].via = "decorator"
LastCall == calls[Len(calls)]

\* What makes Python unable to bind the arguments of a call c, read off the
\* call itself.  params are the parameters after self.
RepeatsOrExceeds(params, c) ==
    \/ Len(c.pos) > Len(params)
    \/ "self" \in DOMAIN c.kw
    \/ \E i \in 1..Len(c.pos) : i <= Len(params) /\ params[i] \in DOMAIN c.kw
CannotBindRun(c) ==
    RepeatsOrExceeds(<<"host", "port", "debug", "load_dotenv">>, c)
CannotBindRoute(c) ==
    \/ RepeatsOrExceeds(<<"rule">>, c)
    \/ (c.pos = <<>> /\ "rule" \notin DOMAIN c.kw)
CannotBindAddUrlRule(c) ==
    \/ RepeatsOrExceeds(<<"rule", "endpoint", "view_func">>, c)
    \/ (c.pos = <<>> /\ "rule" \notin DOMAIN c.kw)
CannotBindDecorator(c) ==
    ~ \/ (Len(c.pos) = 1 /\ DOMAIN c.kw = {})
      \/ (c.pos = <<>> /\ DOMAIN c.kw = {"f"})

\* Python cannot bind the arguments of the latest call to its signature.
LastCannotBind ==
    CASE last.called = "run" -> CannotBindRun(last)
      [] last.called = "route" -> CannotBindRoute(last)
      [] last.called = "add_url_rule" -> CannotBindAddUrlRule(last)
      [] last.called = "decorator" -> CannotBindDecorator(last)
      [] OTHER -> FALSE

\* C1: after Flask(...), the instance holds exactly the ten fields, and each
\* field whose argument was passed equals that argument.
C1_FieldsEqualArguments ==
    Constructed =>
        /\ DOMAIN app = Params
        /\ \A p \in Params : args[p] # Omitted => app[p] = args[p]

C1_Witness ==
    /\ Constructed
    /\ AllPassed
    /\ args.static_url_path = None /\ args.static_host = "x"
    /\ args.static_folder = "x" /\ args.template_folder = None
    /\ args.host_matching = PyTrue /\ args.subdomain_matching = PyFalse
    /\ app.static_host = "x" /\ app.static_url_path = None

\* C7: Flask(import_name) alone gives static_folder "static", template_folder
\* "templates", the three flags False and the other four fields None.
C7_Defaults ==
    (Constructed /\ OnlyImportNamePassed) =>
        /\ app.import_name = args.import_name
        /\ app.static_folder = "static"
        /\ app.template_folder = "templates"
        /\ app.host_matching = PyFalse
        /\ app.subdomain_matching = PyFalse
        /\ app.instance_relative_config = PyFalse
        /\ app.static_url_path = None
        /\ app.static_host = None
        /\ app.instance_path = None
        /\ app.root_path = None

C7_Witness ==
    /\ Constructed
    /\ OnlyImportNamePassed
    /\ app.import_name = "myapp"
    /\ app.template_folder = "templates"

\* C2 as stated: every application of a decorator returned by route returns
\* the callable it was applied to, whatever the options.
C2_ReturnsF_AnyOptions ==
    last.op = "decorator" => (~last.raised /\ last.returned = last.f)

\* C2, amended: an application of a decorator returned by route returns the
\* callable it was applied to, provided the options given to route do not
\* name view_func (then the application raises TypeError instead).
C2_ReturnsF ==
    (last.op = "decorator" /\ ~NamesViewFunc(last.dec)) =>
        (~last.raised /\ last.returned = last.f)

C2_Witness ==
    /\ last.op = "decorator"
    /\ "endpoint" \in DOMAIN Given(last.dec)
    /\ last.f = "<function about>"
    /\ last.returned = "<function about>"
    /\ applied = 2

\* C3 as stated: no operation raises, and the instance dictionary stays what
\* the constructor made it.
C3_NoErrorNoEffect_AnyArguments ==
    Constructed =>
        /\ ~last.raised
        /\ app = Flask_init(BindInit(args))

\* C3, amended: the instance dictionary stays what the constructor made it
\* (the ten fields, nothing added), also by a call that raises; and a call
\* of run, route, add_url_rule or a decorator raises exactly when Python
\* cannot bind arguments to a signature: the call's own arguments, or, in a
\* decorator applied to a callable, those of the add_url_rule call it makes,
\* which is when route's options name view_func.  No body raises.
C3_NoErrorNoEffect ==
    Constructed =>
        /\ app = Flask_init(BindInit(args))
        /\ DOMAIN app = Params
        /\ last.raised <=>
              \/ LastCannotBind
              \/ (last.op = "decorator" /\ NamesViewFunc(last.dec))
        /\ (last.op = "unbound") <=> LastCannotBind

C3_Witness ==
    /\ Constructed
    /\ AllPassed
    /\ last.op = "run"
    /\ Len(calls) = 2
    /\ \E i, j \in 1..2 : calls[i].via = "direct" /\ calls[j].via = "decorator"
    /\ app.static_folder = None

\* C4: every application of a decorator calls add_url_rule with the rule
\* given to route, the endpoint option given to route (None when none was
\* given) and the callable applied, in this order.
C4_ForwardsRuleEndpointView ==
    last.op = "decorator" =>
        /\ ByDecorator(Len(calls))
        /\ LastCall.dec = last.dec
        /\ LastCall.pos = <<routed[last.dec].rule, GivenEndpoint(last.dec), last.f>>

\* C5: when route was given no endpoint option, the endpoint the decorator
\* passes to add_url_rule is the name of the view function.
C5_EndpointIsViewName ==
    (last.op = "decorator" /\ "endpoint" \notin DOMAIN Given(last.dec)) =>
        LastCall.pos[2] = FuncName(last.f)

\* C6 as stated: every registration, direct or through route, completes
\* without an error.
C6_EveryRegistrationCompletes ==
    (last.called = "add_url_rule" \/ last.op = "decorator") => ~last.raised

\* C6, amended: every call of add_url_rule, direct or made by a decorator,
\* enters the body unless Python cannot bind its arguments (no rule, more
\* than three positional arguments, a keyword naming self or a parameter
\* filled by position), and a registration raises exactly then (through
\* route: exactly when route's options name view_func); neither a repeated
\* endpoint nor an empty or malformed rule makes one raise.
C6_RegistrationCompletes ==
    /\ \A i \in 1..Len(calls) :
          calls[i].entered <=> ~CannotBindAddUrlRule(calls[i])
    /\ last.called = "add_url_rule" =>
          (last.raised <=> CannotBindAddUrlRule(LastCall))
    /\ last.op = "decorator" =>
          /\ last.raised <=> CannotBindAddUrlRule(LastCall)
          /\ last.raised <=> NamesViewFunc(last.dec)

C6_Witness ==
    /\ Len(calls) = 2
    /\ ~last.raised
    /\ calls[1].via = "direct" /\ calls[2].via = "decorator"
    /\ Bind(calls[1].pos, calls[1].kw).endpoint = "index"
    /\ Bind(calls[2].pos, calls[2].kw).endpoint = "index"
    /\ Bind(calls[1].pos, calls[1].kw).view_func = "<function index>"
    /\ Bind(calls[2].pos, calls[2].kw).view_func = "<function about>"
    /\ Bind(calls[2].pos, calls[2].kw).rule = ""

\* C8: the keyword arguments of the decorator's call of add_url_rule are the
\* options given to route without the endpoint key, and they are the options
\* add_url_rule receives when the call binds.
C8_ForwardsOtherOptions ==
    \A i \in 1..Len(calls) :
        ByDecorator(i) =>
            /\ calls[i].kw = GivenWithoutEndpoint(calls[i].dec)
            /\ "endpoint" \notin DOMAIN calls[i].kw
            /\ calls[i].entered =>
                  Bind(calls[i].pos, calls[i].kw).options
                      = GivenWithoutEndpoint(calls[i].dec)

C8_Witness ==
    /\ Len(calls) = 2
    /\ ByDecorator(1) /\ ByDecorator(2)
    /\ Given(calls[2].dec) = [endpoint |-> "index", methods |-> "GET"]
    /\ calls[2].kw = [methods |-> "GET"]
    /\ calls[2].entered

\* C9: two applications of one decorator forward the same endpoint, the one
\* given to route, and the same other options.
C9_SameEndpointEveryApplication ==
    \A i, j \in 1..Len(calls) :
        (ByDecorator(i) /\ ByDecorator(j) /\ calls[i].dec = calls[j].dec) =>
            /\ calls[i].pos[2] = GivenEndpoint(calls[i].dec)
            /\ calls[i].pos[2] = calls[j].pos[2]
            /\ calls[i].kw = calls[j].kw

\* C10: the calls of add_url_rule made through route are as many as the
\* decorator applications (a call that fails to bind its arguments is a
\* call made); route itself makes none.
C10_OneCallPerApplication ==
    /\ Cardinality({i \in 1..Len(calls) : ThroughRoute(i)}) = applied
    /\ \A i \in 1..Len(calls) : calls[i].via # "route"

C10_Witness ==
    /\ Len(decorators) = 1
    /\ applied = 2
    /\ Len(calls) = 2
    /\ ByDecorator(1) /\ ByDecorator(2)

====
